---- MODULE Spec2Model ----
(***************************************************************************)
(* Model of the bar/phrase reshuffling transform of                        *)
(* src/generators/bar_shuffling.py (BarShufflingGenerator), of the track   *)
(* transposition of src/generators/track_transposition.py and of the       *)
(* benchmark scorers of src/scripts/run_*.py.                              *)
(*                                                                         *)
(* A MIDI file is a record [ticks_per_beat, tracks]; a track is a sequence *)
(* of messages; a message is a record with the fields mido gives it that   *)
(* the code reads (type, channel, note, velocity, numerator, denominator, *)
(* time).  Bar indices are 0-based as in the code; TLA+ sequences are      *)
(* 1-based, so bar k of a list of bars is bars[k + 1].                     *)
(***************************************************************************)
EXTENDS Integers, Sequences, FiniteSets, TLC

VARIABLES
    disk,          \* the file system: path -> MIDI file (inputs and outputs)
    rng,           \* the process-wide generator of module random
    pc,            \* position of the caller / of generate_shuffled_versions
    params,        \* arguments of the call in progress (or of the last call)
    ticks_per_phrase, \* generate_shuffled_versions: unit width W
    num_versions,  \* generate_shuffled_versions: the (possibly capped) count
    used_orders,   \* generate_shuffled_versions: set of order tuples
    output_paths,  \* generate_shuffled_versions: list of written paths
    i,             \* generate_shuffled_versions: loop index
    attempts,      \* _reshuffle_bars: rejected draws of the retry loop
    warnings,      \* what print() reported as a warning
    error,         \* the exception that ended the call ("" when none)
    last,          \* locals of the last completed _reshuffle_bars call
    orders,        \* order used by each version written in this session
    history,       \* completed sessions: their arguments, orders and outcome
    bench,         \* a benchmark scorer and what the scoring function returns
    result         \* what the scorer returned, per value of return_all_results

vars == <<disk, rng, pc, params, ticks_per_phrase, num_versions, used_orders,
          output_paths, i, attempts, warnings, error, last, orders, history,
          bench, result>>

----------------------------------------------------------------------------
(* Bounds of the explored inputs.                                          *)

MaxLen == 3        \* messages before end_of_track in a single-track input
MaxLen2 == 1       \* the same for the first track of a two-track input
MaxUnits == 3      \* largest unit count of a direct _reshuffle_bars call

----------------------------------------------------------------------------
(* Messages.                                                               *)

Msg(type, note, velocity, time) ==
    [type |-> type, channel |-> 0, note |-> note, velocity |-> velocity,
     numerator |-> 0, denominator |-> 0, time |-> time]

TimeSignature(n, d, time) ==
    [type |-> "time_signature", channel |-> 0, note |-> 0, velocity |-> 0,
     numerator |-> n, denominator |-> d, time |-> time]

EndOfTrack(time) == Msg("end_of_track", 0, 0, time)

\* mido: msg.is_meta
is_meta(msg) == msg.type \in {"set_tempo", "time_signature", "end_of_track"}

\* hasattr(msg, 'note') and hasattr(msg, 'channel')
has_note(msg) == msg.type \in {"note_on", "note_off", "polytouch"}

note_key(msg) == <<msg.channel, msg.note>>

WithTime(msg, t) == [msg EXCEPT !.time = t]

----------------------------------------------------------------------------
(* Sequence helpers.                                                       *)

RECURSIVE SumTimes(_)
SumTimes(track) ==
    IF track = <<>> THEN 0 ELSE track[1].time + SumTimes(Tail(track))

Max(a, b) == IF a >= b THEN a ELSE b
Min(a, b) == IF a <= b THEN a ELSE b

RECURSIVE MaxTrackTicks(_)
\* total_ticks = max over tracks of sum(msg.time for msg in track)
MaxTrackTicks(tracks) ==
    IF tracks = <<>> THEN 0
    ELSE Max(SumTimes(tracks[1]), MaxTrackTicks(Tail(tracks)))

RECURSIVE InsertByRel(_, _)
\* x placed after every element whose key is <= its own: list.sort is stable
InsertByRel(x, s) ==
    IF s = <<>> THEN <<x>>
    ELSE IF s[Len(s)].rel <= x.rel THEN Append(s, x)
    ELSE Append(InsertByRel(x, SubSeq(s, 1, Len(s) - 1)), s[Len(s)])

RECURSIVE SortByRel(_)
\* bar.sort(key=lambda item: item[1])
SortByRel(s) ==
    IF s = <<>> THEN <<>>
    ELSE InsertByRel(s[Len(s)], SortByRel(SubSeq(s, 1, Len(s) - 1)))

RECURSIVE InsertByAbs(_, _)
InsertByAbs(x, s) ==
    IF s = <<>> THEN <<x>>
    ELSE IF s[Len(s)].abs <= x.abs THEN Append(s, x)
    ELSE Append(InsertByAbs(x, SubSeq(s, 1, Len(s) - 1)), s[Len(s)])

RECURSIVE SortByAbs(_)
\* all_msgs.sort(key=lambda item: item[1])
SortByAbs(s) ==
    IF s = <<>> THEN <<>>
    ELSE InsertByAbs(s[Len(s)], SortByAbs(SubSeq(s, 1, Len(s) - 1)))

RECURSIVE Concat(_)
Concat(ss) == IF ss = <<>> THEN <<>> ELSE ss[1] \o Concat(Tail(ss))

Range(s) == {s[k] : k \in DOMAIN s}

----------------------------------------------------------------------------
(* _reshuffle_bars, step 1: split a track into bars (lines 292-360).       *)
(*                                                                         *)
(* A bar entry is the code's tuple (msg, relative_time_in_bar,             *)
(* original_abs_time) as [msg, rel, abs], with two bookkeeping fields the  *)
(* code does not have and never reads: orig, the 1-based position of the   *)
(* input message the entry copies (0 for a synthesized message), and of,   *)
(* the position of the note-on whose note the entry starts, continues or   *)
(* closes (0 when it belongs to no open note).                             *)

num_bars_of(total_ticks, ticks_per_bar) ==
    (total_ticks + ticks_per_bar - 1) \div ticks_per_bar

Entry(msg, rel, abs, orig, of) ==
    [msg |-> msg, rel |-> rel, abs |-> abs, orig |-> orig, of |-> of]

AppendBar(bars, k, e) == [bars EXCEPT ![k + 1] = Append(@, e)]

\* active_notes is a dict: insertion-ordered, one value per key
ActiveIndex(active_notes, key) ==
    {k \in DOMAIN active_notes : active_notes[k].key = key}

ActiveHas(active_notes, key) == ActiveIndex(active_notes, key) # {}

ActiveGet(active_notes, key) ==
    active_notes[CHOOSE k \in ActiveIndex(active_notes, key) : TRUE]

\* active_notes[note_key] = (msg.copy(), abs_time, bar_idx)
ActivePut(active_notes, key, val) ==
    IF ActiveHas(active_notes, key)
    THEN [k \in DOMAIN active_notes |->
            IF active_notes[k].key = key THEN val ELSE active_notes[k]]
    ELSE Append(active_notes, val)

\* del active_notes[note_key]
ActiveDel(active_notes, key) ==
    SelectSeq(active_notes, LAMBDA a : a.key # key)

RECURSIVE SplitSpan_OnInLast(_, _, _, _, _, _)
\* SplitSpan with a note-on added at the start of the note-off's bar as well
SplitSpan_OnInLast(bars, span_bar, bar_idx, msg, on, ticks_per_bar) ==
    IF span_bar >= bar_idx THEN bars
    ELSE
      LET note_off == [Msg("note_off", msg.note, 0, 0)
                          EXCEPT !.channel = msg.channel]
          note_on == [Msg("note_on", msg.note, on.msg.velocity, 0)
                          EXCEPT !.channel = msg.channel]
          b1 == AppendBar(bars, span_bar,
                          Entry(note_off, ticks_per_bar,
                                (span_bar + 1) * ticks_per_bar, 0, on.idx))
          b2 == AppendBar(b1, span_bar + 1,
                          Entry(note_on, 0, (span_bar + 1) * ticks_per_bar,
                                0, on.idx))
      IN SplitSpan_OnInLast(b2, span_bar + 1, bar_idx, msg, on, ticks_per_bar)

RECURSIVE SplitSpan_NoOff(_, _, _, _, _, _)
\* SplitSpan without the note_off at the end of each bar the note crosses
SplitSpan_NoOff(bars, span_bar, bar_idx, msg, on, ticks_per_bar) ==
    IF span_bar >= bar_idx THEN bars
    ELSE
      LET note_on_time_next == (span_bar + 1) * ticks_per_bar
          note_on == [Msg("note_on", msg.note, on.msg.velocity, 0)
                          EXCEPT !.channel = msg.channel]
          b2 == IF span_bar + 1 < bar_idx
                THEN AppendBar(bars, span_bar + 1,
                               Entry(note_on, 0, note_on_time_next, 0, on.idx))
                ELSE bars
      IN SplitSpan_NoOff(b2, span_bar + 1, bar_idx, msg, on, ticks_per_bar)

RECURSIVE SplitSpan(_, _, _, _, _, _)
\* for span_bar in range(note_on_bar, bar_idx): lines 320-332
SplitSpan(bars, span_bar, bar_idx, msg, on, ticks_per_bar) ==
    IF span_bar >= bar_idx THEN bars
    ELSE
      LET note_off_time == (span_bar + 1) * ticks_per_bar
          note_off_rel_time == note_off_time - (span_bar * ticks_per_bar)
          note_off == [Msg("note_off", msg.note, 0, 0)
                          EXCEPT !.channel = msg.channel]
          b1 == AppendBar(bars, span_bar,
                          Entry(note_off, note_off_rel_time, note_off_time,
                                0, on.idx))
          note_on_time_next == (span_bar + 1) * ticks_per_bar
          note_on == [Msg("note_on", msg.note, on.msg.velocity, 0)
                          EXCEPT !.channel = msg.channel]
          b2 == IF span_bar + 1 < bar_idx
                THEN AppendBar(b1, span_bar + 1,
                               Entry(note_on, 0, note_on_time_next, 0, on.idx))
                ELSE b1
      IN SplitSpan(b2, span_bar + 1, bar_idx, msg, on, ticks_per_bar)

\* PassThrough with the message dropped
PassThrough_Dropped(st, abs_time, bar_idx, plain) ==
    [st EXCEPT !.abs_time = abs_time]

\* lines 337-345: a note_off without matching note_on, other note messages
\* and non-note messages go to their bar as they are
PassThrough(st, abs_time, bar_idx, plain) ==
    [st EXCEPT !.abs_time = abs_time,
               !.bars = AppendBar(@, bar_idx, plain)]

\* bar_idx_of with an event on a bar line put in the bar that ends there
bar_idx_of_TiesEarlier(abs_time, ticks_per_bar, num_bars) ==
    Min(Max(abs_time - 1, 0) \div ticks_per_bar, num_bars - 1)

\* line 301
bar_idx_of(abs_time, ticks_per_bar, num_bars) ==
    Min(abs_time \div ticks_per_bar, num_bars - 1)

\* the body of "for msg in track" (lines 297-345) for the idx-th message
SegmentStep(st, msg, idx, ticks_per_bar, num_bars) ==
    LET abs_time == st.abs_time + msg.time
        bar_idx == bar_idx_of(abs_time, ticks_per_bar, num_bars)
        relative_time_in_bar == abs_time - (bar_idx * ticks_per_bar)
        key == note_key(msg)
        plain == Entry(msg, relative_time_in_bar, abs_time, idx, 0)
    IN
    IF is_meta(msg) /\ msg.type # "end_of_track"
    THEN [st EXCEPT !.abs_time = abs_time,
                    !.meta_messages = Append(@, [msg |-> msg, abs |-> abs_time,
                                                 orig |-> idx])]
    ELSE IF has_note(msg) /\ msg.type = "note_on" /\ msg.velocity > 0
    THEN [st EXCEPT !.abs_time = abs_time,
                    !.active_notes =
                        ActivePut(@, key, [key |-> key, msg |-> msg,
                                           time |-> abs_time, bar |-> bar_idx,
                                           idx |-> idx]),
                    !.bars = AppendBar(@, bar_idx,
                                 Entry(msg, relative_time_in_bar, abs_time,
                                       idx, idx))]
    ELSE IF has_note(msg)
            /\ (msg.type = "note_off"
                \/ (msg.type = "note_on" /\ msg.velocity = 0))
            /\ ActiveHas(st.active_notes, key)
    THEN LET on == ActiveGet(st.active_notes, key)
             split == IF on.bar # bar_idx
                      THEN SplitSpan(st.bars, on.bar, bar_idx, msg, on,
                                     ticks_per_bar)
                      ELSE st.bars
         IN [st EXCEPT !.abs_time = abs_time,
                       !.bars = AppendBar(split, bar_idx,
                                    Entry(msg, relative_time_in_bar, abs_time,
                                          idx, on.idx)),
                       !.active_notes = ActiveDel(@, key)]
    ELSE \* unmatched note_off, other note messages, non-note messages
         PassThrough(st, abs_time, bar_idx, plain)

RECURSIVE SegmentLoop(_, _, _, _, _)
SegmentLoop(st, track, idx, ticks_per_bar, num_bars) ==
    IF idx > Len(track) THEN st
    ELSE SegmentLoop(SegmentStep(st, track[idx], idx, ticks_per_bar, num_bars),
                     track, idx + 1, ticks_per_bar, num_bars)

RECURSIVE ForceClose(_, _, _, _)
\* lines 347-356: notes that never got a note_off
ForceClose(bars, active_notes, total_ticks, ticks_per_bar) ==
    IF active_notes = <<>> THEN bars
    ELSE
      LET a == active_notes[1]
          note_off == [Msg("note_off", a.msg.note, 64, 0)
                          EXCEPT !.channel = a.msg.channel]
          final_rel_time == total_ticks - (a.bar * ticks_per_bar)
      IN ForceClose(AppendBar(bars, a.bar,
                              Entry(note_off, final_rel_time, total_ticks,
                                    0, a.idx)),
                    Tail(active_notes), total_ticks, ticks_per_bar)

\* lines 292-360 for one track: the bars (each sorted by relative time) and
\* the meta messages
Segment(track, ticks_per_bar, num_bars, total_ticks) ==
    LET st0 == [bars |-> [k \in 1..num_bars |-> <<>>],
                meta_messages |-> <<>>,
                active_notes |-> <<>>,
                abs_time |-> 0]
        st == SegmentLoop(st0, track, 1, ticks_per_bar, num_bars)
        closed == ForceClose(st.bars, st.active_notes, total_ticks,
                             ticks_per_bar)
    IN [bars |-> [k \in 1..num_bars |-> SortByRel(closed[k])],
        meta_messages |-> st.meta_messages,
        open_notes |-> st.active_notes]

----------------------------------------------------------------------------
(* _reshuffle_bars, steps 2-6: rebuild a track from the bars in bar_order  *)
(* (lines 362-388).  An all_msgs item is the code's (msg, new_abs_time) as *)
(* [msg, abs], keeping the entry's bookkeeping fields, the bar the entry   *)
(* comes from and the slot that bar was placed at (-1 for a meta message). *)

Placed(e, bar_idx, shuffled_bar_pos, ticks_per_bar) ==
    LET bar_start_time == shuffled_bar_pos * ticks_per_bar
    IN [msg |-> e.msg, abs |-> bar_start_time + e.rel,
        slot |-> shuffled_bar_pos, bar |-> bar_idx,
        orig |-> e.orig, of |-> e.of]

\* PlaceBar with the index bug of reading the order's first entry at every slot
PlaceBar_FirstBarEverywhere(bars, bar_order, shuffled_bar_pos, ticks_per_bar) ==
    LET bar_idx == bar_order[1]
        bar == bars[bar_idx + 1]
    IN [k \in DOMAIN bar |->
          Placed(bar[k], bar_idx, shuffled_bar_pos, ticks_per_bar)]

\* lines 365-371: the items of the bar placed at slot shuffled_bar_pos
PlaceBar(bars, bar_order, shuffled_bar_pos, ticks_per_bar) ==
    LET bar_idx == bar_order[shuffled_bar_pos + 1]
        bar == bars[bar_idx + 1]
    IN [k \in DOMAIN bar |->
          Placed(bar[k], bar_idx, shuffled_bar_pos, ticks_per_bar)]

\* PlaceMeta with the meta messages gathered at the start of the track
PlaceMeta_AtStart(m) ==
    [msg |-> m.msg, abs |-> 0, slot |-> -1, bar |-> -1,
     orig |-> m.orig, of |-> 0]

\* lines 373-374: meta messages at their original absolute time
PlaceMeta(m) ==
    [msg |-> m.msg, abs |-> m.abs, slot |-> -1, bar |-> -1,
     orig |-> m.orig, of |-> 0]

\* lines 363-376: all_msgs after the sort
AllMsgs(seg, bar_order, ticks_per_bar) ==
    LET placed == Concat([s \in 1..Len(bar_order) |->
                            PlaceBar(seg.bars, bar_order, s - 1, ticks_per_bar)])
        metas == [k \in DOMAIN seg.meta_messages |->
                    PlaceMeta(seg.meta_messages[k])]
    IN SortByAbs(placed \o metas)

\* Deltas with each time taken from the start of the track
Deltas_FromStart(all_msgs) ==
    [k \in DOMAIN all_msgs |-> WithTime(all_msgs[k].msg, all_msgs[k].abs)]

\* lines 378-383: delta times
Deltas(all_msgs) ==
    [k \in DOMAIN all_msgs |->
        WithTime(all_msgs[k].msg,
                 all_msgs[k].abs - (IF k = 1 THEN 0 ELSE all_msgs[k - 1].abs))]

\* lines 384-387: the last message is end_of_track
EnsureEndOfTrack(rebuilt_track) ==
    IF ~(Len(rebuilt_track) > 0
         /\ is_meta(rebuilt_track[Len(rebuilt_track)])
         /\ rebuilt_track[Len(rebuilt_track)].type = "end_of_track")
    THEN Append(rebuilt_track, EndOfTrack(0))
    ELSE rebuilt_track

RebuildTrack(seg, bar_order, ticks_per_bar) ==
    EnsureEndOfTrack(Deltas(AllMsgs(seg, bar_order, ticks_per_bar)))

\* Reshuffled with bar_order applied to the first track only, the others
\* being rebuilt in their original order
Reshuffled_FirstTrackOnly(mid, ticks_per_bar, bar_order) ==
    LET total_ticks == MaxTrackTicks(mid.tracks)
        num_bars == num_bars_of(total_ticks, ticks_per_bar)
        order_of(t) == IF t = 1 THEN bar_order
                       ELSE [k \in DOMAIN bar_order |-> k - 1]
        segs == [t \in DOMAIN mid.tracks |->
                    Segment(mid.tracks[t], ticks_per_bar, num_bars, total_ticks)]
        all_msgs == [t \in DOMAIN mid.tracks |->
                        AllMsgs(segs[t], order_of(t), ticks_per_bar)]
    IN [mid |-> mid,
        ticks_per_bar |-> ticks_per_bar,
        total_ticks |-> total_ticks,
        num_bars |-> num_bars,
        bar_order |-> bar_order,
        segs |-> segs,
        all_msgs |-> all_msgs,
        new_mid |-> [ticks_per_beat |-> mid.ticks_per_beat,
                     tracks |-> [t \in DOMAIN mid.tracks |->
                                   RebuildTrack(segs[t], order_of(t),
                                                ticks_per_bar)]]]

\* lines 287-388 for a loaded file and an accepted bar_order: the locals the
\* call ends with, new_mid being what new_mid.save writes
Reshuffled(mid, ticks_per_bar, bar_order) ==
    LET total_ticks == MaxTrackTicks(mid.tracks)
        num_bars == num_bars_of(total_ticks, ticks_per_bar)
        segs == [t \in DOMAIN mid.tracks |->
                    Segment(mid.tracks[t], ticks_per_bar, num_bars, total_ticks)]
        all_msgs == [t \in DOMAIN mid.tracks |->
                        AllMsgs(segs[t], bar_order, ticks_per_bar)]
    IN [mid |-> mid,
        ticks_per_bar |-> ticks_per_bar,
        total_ticks |-> total_ticks,
        num_bars |-> num_bars,
        bar_order |-> bar_order,
        segs |-> segs,
        all_msgs |-> all_msgs,
        new_mid |-> [ticks_per_beat |-> mid.ticks_per_beat,
                     tracks |-> [t \in DOMAIN mid.tracks |->
                                   RebuildTrack(segs[t], bar_order,
                                                ticks_per_bar)]]]

----------------------------------------------------------------------------
(* The random generator and the sampler (lines 257-282).                   *)

\* Swap that copies one element over the other
Swap_Overwrite(x, a, b) == [x EXCEPT ![a] = x[b]]

\* x[i], x[j] = x[j], x[i]
Swap(x, a, b) == [x EXCEPT ![a] = x[b], ![b] = x[a]]

RECURSIVE ShuffleFrom(_, _, _)
\* random.shuffle: for i in reversed(range(1, len(x))):
\*                     j = randbelow(i + 1); x[i], x[j] = x[j], x[i]
\* draws[k] is the k-th value randbelow returns; i is 0-based
ShuffleFrom(x, idx, draws) ==
    IF idx < 1 THEN x
    ELSE ShuffleFrom(Swap(x, idx + 1, draws[Len(x) - idx] + 1), idx - 1, draws)

Shuffle(x, draws) == ShuffleFrom(x, Len(x) - 1, draws)

\* the values a seeded generator returns are a fixed function of the seed
\* and of the number of values drawn since
TapeValue(seed, pos) == ((seed + 3) * (pos + 1) * (pos + 2) + pos * 5 + seed) % 17

\* how many randbelow calls shuffling a list of n elements makes
DrawsOfShuffle(n) == IF n > 1 THEN n - 1 ELSE 0

\* the draw vectors a shuffle of n elements can see in generator state g
DrawChoices(g, n) ==
    IF g.mode = "entropy"
    THEN {d \in [1..DrawsOfShuffle(n) -> 0..(n - 1)] :
            \A k \in 1..DrawsOfShuffle(n) : d[k] <= n - k}
    ELSE {[k \in 1..DrawsOfShuffle(n) |->
             TapeValue(g.seed, g.pos + k - 1) % (n - k + 1)]}

AfterDraws(g, n) ==
    IF g.mode = "entropy" THEN g ELSE [g EXCEPT !.pos = @ + DrawsOfShuffle(n)]

\* random.seed(random_seed)
Seeded(seed) == [mode |-> "seeded", seed |-> seed, pos |-> 0]

Entropy == [mode |-> "entropy", seed |-> 0, pos |-> 0]

\* list(range(a, b)) as 0-based values
RangeList(a, b) == [k \in 1..Max(b - a, 0) |-> a + k - 1]

\* how many elements the candidate's shuffle call permutes
ShuffledCount(num_bars, preserve_first_and_last) ==
    IF preserve_first_and_last THEN Max(num_bars - 2, 0) ELSE num_bars

\* CandidateOrder with the fixed bars appended after the shuffled middle
CandidateOrder_EndpointsAppended(num_bars, preserve_first_and_last, draws) ==
    IF preserve_first_and_last
    THEN Shuffle(RangeList(1, num_bars - 1), draws) \o <<0, num_bars - 1>>
    ELSE Shuffle(RangeList(0, num_bars), draws)

\* lines 261-269: the candidate bar_order for the given draws
CandidateOrder(num_bars, preserve_first_and_last, draws) ==
    IF preserve_first_and_last
    THEN <<0>> \o Shuffle(RangeList(1, num_bars - 1), draws) \o <<num_bars - 1>>
    ELSE Shuffle(RangeList(0, num_bars), draws)

----------------------------------------------------------------------------
(* Paths and the files on disk.                                            *)

InPath(stem) == [dir |-> "in", stem |-> stem, phrase |-> 0, version |-> 0]

\* lines 188-190: f"{stem}_shuffled{phrase_suffix}_v{i+1}{suffix}" in output_dir
OutPath(stem, phrase_length, version) ==
    [dir |-> "out", stem |-> stem,
     phrase |-> IF phrase_length > 1 THEN phrase_length ELSE 0,
     version |-> version]

NoteOn(note, time) == Msg("note_on", note, 64, time)
NoteOff(note, time) == Msg("note_off", note, 0, time)

\* an input of 4 ticks in 2/4 with one beat per tick
FileA ==
    [ticks_per_beat |-> 1,
     tracks |-> << <<TimeSignature(2, 4, 0), NoteOn(1, 0), NoteOff(1, 3),
                     EndOfTrack(1)>> >>]

\* an input of 3 ticks, two tracks, no time signature
FileB ==
    [ticks_per_beat |-> 1,
     tracks |-> << <<NoteOn(1, 0), NoteOff(1, 2), EndOfTrack(1)>>,
                   <<Msg("set_tempo", 0, 0, 0), EndOfTrack(0)>> >>]

Library == (InPath("a") :> FileA) @@ (InPath("b") :> FileB)

Stems == {"a", "b", "c"}     \* "c" names no file

----------------------------------------------------------------------------
(* generate_shuffled_versions (lines 94-207).                              *)

MaxVersions == 5   \* largest num_versions requested
MaxTpb == 2        \* largest ticks_per_bar passed
MaxPhrase == 2     \* largest phrase_length passed
MaxSeed == 1       \* largest random_seed passed
MaxShuffles == 6   \* sessions explored have at most this many valid orders
MaxSessions == 2   \* sessions of one batch

max_attempts == 100

\* an Optional[int] is <<>> (None) or <<v>>
Optional(S) == {<<>>} \cup {<<v>> : v \in S}

Params ==
    [input_midi_path : {InPath(st) : st \in Stems},
     num_versions : 0..MaxVersions,
     ticks_per_bar : Optional((-1)..MaxTpb),
     phrase_length : 0..MaxPhrase,
     random_seed : Optional(0..MaxSeed),
     preserve_first_and_last : BOOLEAN]

RECURSIVE Factorial(_)
Factorial(n) == IF n <= 1 THEN 1 ELSE n * Factorial(n - 1)

\* calculate_possible_shuffles counting every order, endpoints kept or not
calculate_possible_shuffles_AllOrders(num_phrases, preserve_first_and_last) ==
    Factorial(num_phrases)

\* lines 71-92
calculate_possible_shuffles(num_phrases, preserve_first_and_last) ==
    IF preserve_first_and_last
    THEN IF num_phrases <= 2 THEN 1 ELSE Factorial(num_phrases - 2)
    ELSE Factorial(num_phrases)

\* lines 43-48: the first time_signature message, tracks in order
TimeSignatures(midi_file) ==
    SelectSeq(Concat(midi_file.tracks), LAMBDA m : m.type = "time_signature")

\* lines 65-69: int((numerator * 4) / denominator * ticks_per_beat)
calculate_ticks_per_bar(midi_file, ts) ==
    (ts.numerator * 4 * midi_file.ticks_per_beat) \div ts.denominator

\* StartError with the phrase_length check before the look for the input
StartError_PhraseFirst(p) ==
    IF p.phrase_length < 1 THEN "ValueError"
    ELSE IF p.input_midi_path \notin DOMAIN disk THEN "FileNotFoundError"
    ELSE IF p.ticks_per_bar = <<>>
            /\ TimeSignatures(disk[p.input_midi_path]) = <<>> THEN "ValueError"
    ELSE ""

\* the exception lines 133-160 raise for arguments p, "" when none
StartError(p) ==
    IF p.input_midi_path \notin DOMAIN disk THEN "FileNotFoundError"
    ELSE IF p.phrase_length < 1 THEN "ValueError"
    ELSE IF p.ticks_per_bar = <<>>
            /\ TimeSignatures(disk[p.input_midi_path]) = <<>> THEN "ValueError"
    ELSE ""

\* lines 145-153
TicksPerPhraseOf(p) ==
    LET midi_file == disk[p.input_midi_path]
        tpb == IF p.ticks_per_bar = <<>>
               THEN calculate_ticks_per_bar(midi_file,
                                            TimeSignatures(midi_file)[1])
               ELSE p.ticks_per_bar[1]
    IN tpb * p.phrase_length

\* lines 156-160
NumPhrasesOf(p) ==
    num_bars_of(MaxTrackTicks(disk[p.input_midi_path].tracks),
                TicksPerPhraseOf(p))

Session(p, outcome) ==
    [params |-> p, orders |-> orders, output_paths |-> output_paths,
     error |-> outcome]

\* CappedVersions without the cap
CappedVersions_NoCap(requested, possible_shuffles) == requested

\* lines 170-173
CappedVersions(requested, possible_shuffles) ==
    IF requested > possible_shuffles THEN possible_shuffles ELSE requested

\* IsNewOrder with the membership test dropped
IsNewOrder_Always(order_tuple, used) == TRUE

\* line 275, used_orders not None: "order_tuple not in used_orders"
IsNewOrder(order_tuple, used) == order_tuple \notin used

\* line 277: used_orders.add(order_tuple)
AddOrder(order_tuple, used) == used \cup {order_tuple}

\* Reseed with the seed ignored
Reseed_Never(p, g) == g

\* lines 178-180
Reseed(p, g) == IF p.random_seed # <<>> THEN Seeded(p.random_seed[1]) ELSE g

\* lines 133-184: everything before the loop
Start(p) ==
    /\ params' = p
    /\ orders' = <<>>
    /\ output_paths' = <<>>
    /\ used_orders' = {}
    /\ i' = 0
    /\ attempts' = 0
    /\ UNCHANGED <<disk, last, bench, result>>
    /\ IF StartError(p) # ""
       THEN /\ error' = StartError(p)
            /\ pc' = "failed"
            /\ history' = Append(history, [params |-> p, orders |-> <<>>,
                                           output_paths |-> <<>>,
                                           error |-> StartError(p)])
            /\ UNCHANGED <<rng, ticks_per_phrase, num_versions, warnings>>
       ELSE IF TicksPerPhraseOf(p) = 0
       THEN /\ error' = "ZeroDivisionError"
            /\ pc' = "failed"
            /\ ticks_per_phrase' = 0
            /\ history' = Append(history, [params |-> p, orders |-> <<>>,
                                           output_paths |-> <<>>,
                                           error |-> "ZeroDivisionError"])
            /\ UNCHANGED <<rng, num_versions, warnings>>
       ELSE IF ~p.preserve_first_and_last /\ NumPhrasesOf(p) < 0
       THEN \* line 92: math.factorial of a negative number
            /\ error' = "ValueError"
            /\ pc' = "failed"
            /\ ticks_per_phrase' = TicksPerPhraseOf(p)
            /\ history' = Append(history, [params |-> p, orders |-> <<>>,
                                           output_paths |-> <<>>,
                                           error |-> "ValueError"])
            /\ UNCHANGED <<rng, num_versions, warnings>>
       ELSE LET possible_shuffles ==
                    calculate_possible_shuffles(NumPhrasesOf(p),
                                                p.preserve_first_and_last)
            IN /\ possible_shuffles <= MaxShuffles
               /\ ticks_per_phrase' = TicksPerPhraseOf(p)
               /\ IF p.num_versions > possible_shuffles
                  THEN warnings' = Append(warnings,
                              [requested |-> p.num_versions,
                               possible |-> possible_shuffles])
                  ELSE warnings' = warnings
               /\ num_versions' = CappedVersions(p.num_versions,
                                                 possible_shuffles)
               /\ rng' = Reseed(p, rng)
               /\ error' = ""
               /\ pc' = "loop"
               /\ history' = history

StartSession ==
    /\ pc = "idle"
    /\ \E p \in Params : Start(p)

\* TooFewBars with the limit off by one
TooFewBars_OffByOne(num_bars) == num_bars < 1

\* line 252
TooFewBars(num_bars) == num_bars < 2

\* the caller runs the same command again
RepeatSession ==
    /\ pc \in {"done", "failed"}
    /\ Len(history) < MaxSessions
    /\ Start(params)

\* lines 186-200 and 241-256: the loop calls _reshuffle_bars, which loads
\* the file and counts its bars
BeginVersion ==
    /\ pc = "loop"
    /\ i < num_versions
    /\ LET mid == disk[params.input_midi_path]
           num_bars == num_bars_of(MaxTrackTicks(mid.tracks), ticks_per_phrase)
       IN IF TooFewBars(num_bars)
          THEN /\ error' = "ValueError"
               /\ pc' = "failed"
               /\ history' = Append(history, Session(params, "ValueError"))
          ELSE /\ pc' = "sample"
               /\ UNCHANGED <<error, history>>
    /\ attempts' = 0
    /\ UNCHANGED <<disk, rng, params, ticks_per_phrase, num_versions,
                   used_orders, output_paths, i, warnings, last, orders,
                   bench, result>>

\* one pass of the retry loop (lines 260-282); an accepted order is followed
\* by the rest of _reshuffle_bars and of the loop body (lines 287-394, 202)
Draw ==
    /\ pc = "sample"
    /\ LET mid == disk[params.input_midi_path]
           num_bars == num_bars_of(MaxTrackTicks(mid.tracks), ticks_per_phrase)
           n == ShuffledCount(num_bars, params.preserve_first_and_last)
       IN \E draws \in DrawChoices(rng, n) :
            LET bar_order == CandidateOrder(num_bars,
                                 params.preserve_first_and_last, draws)
                output_path == OutPath(params.input_midi_path.stem,
                                       params.phrase_length, i + 1)
                res == Reshuffled(mid, ticks_per_phrase, bar_order)
            IN /\ rng' = AfterDraws(rng, n)
               /\ IF IsNewOrder(bar_order, used_orders)
                  THEN /\ used_orders' = AddOrder(bar_order, used_orders)
                       /\ last' = res
                       /\ disk' = (output_path :> res.new_mid) @@ disk
                       /\ output_paths' = Append(output_paths, output_path)
                       /\ orders' = Append(orders, bar_order)
                       /\ i' = i + 1
                       /\ pc' = "loop"
                       /\ UNCHANGED <<attempts, error, history>>
                  ELSE /\ attempts' = attempts + 1
                       /\ IF attempts + 1 = max_attempts
                          THEN /\ error' = "ValueError"
                               /\ pc' = "failed"
                               /\ history' = Append(history,
                                                Session(params, "ValueError"))
                          ELSE UNCHANGED <<error, pc, history>>
                       /\ UNCHANGED <<used_orders, last, disk, output_paths,
                                      orders, i>>
    /\ UNCHANGED <<params, ticks_per_phrase, num_versions, warnings, bench,
                   result>>

\* line 207
Return ==
    /\ pc = "loop"
    /\ i >= num_versions
    /\ pc' = "done"
    /\ history' = Append(history, Session(params, ""))
    /\ UNCHANGED <<disk, rng, params, ticks_per_phrase, num_versions,
                   used_orders, output_paths, i, attempts, warnings, error,
                   last, orders, bench, result>>

NoCall == [num_bars |-> 0]

\* no scorer is run
NoBench == [scorer |-> "", nll |-> <<>>, corr |-> <<>>]

\* a scorer has returned nothing yet: no value for either flag
NoResult == [all |-> <<>>, score |-> <<>>]

NoParams ==
    [input_midi_path |-> InPath("c"), num_versions |-> 0, ticks_per_bar |-> <<>>,
     phrase_length |-> 0, random_seed |-> <<>>,
     preserve_first_and_last |-> FALSE]

InitCommon ==
    /\ pc = "idle"
    /\ params = NoParams
    /\ ticks_per_phrase = 0
    /\ num_versions = 0
    /\ used_orders = {}
    /\ output_paths = <<>>
    /\ i = 0
    /\ attempts = 0
    /\ warnings = <<>>
    /\ error = ""
    /\ last = NoCall
    /\ orders = <<>>
    /\ history = <<>>
    /\ bench = NoBench
    /\ result = NoResult

\* one session in a fresh process
Init ==
    /\ InitCommon
    /\ disk = Library
    /\ rng = Entropy

Next == StartSession \/ BeginVersion \/ Draw \/ Return

Spec == Init /\ [][Next]_vars

\* a batch of sessions in a process whose generator was seeded before
InitBatch ==
    /\ InitCommon
    /\ disk = Library
    /\ rng \in {Seeded(sd) : sd \in 0..MaxSeed}

NextBatch == StartSession \/ RepeatSession \/ BeginVersion \/ Draw \/ Return

SpecBatch == InitBatch /\ [][NextBatch]_vars

----------------------------------------------------------------------------
(* A direct call of _reshuffle_bars (lines 209-394) with used_orders=None, *)
(* on every input file within the bounds.                                  *)

Pitches == {1}

\* the delta times of the input messages
DeltaTimes == {0, 1}

BodyKinds ==
    {NoteOn(n, 0) : n \in Pitches}
        \cup {NoteOff(n, 0) : n \in Pitches}
        \cup {Msg("note_on", n, 0, 0) : n \in Pitches}
        \cup {Msg("set_tempo", 0, 0, 0), Msg("control_change", 0, 0, 0)}

BodyMsgs == {WithTime(m, d) : m \in BodyKinds, d \in DeltaTimes}

\* tracks of at most n messages followed by the end_of_track message
TracksUpTo(n) ==
    {body \o <<EndOfTrack(d)>> :
        body \in UNION {[1..k -> BodyMsgs] : k \in 0..n}, d \in DeltaTimes}

InputFiles ==
    {[ticks_per_beat |-> 1, tracks |-> <<t>>] : t \in TracksUpTo(MaxLen)}
        \cup {[ticks_per_beat |-> 1, tracks |-> <<t1, t2>>] :
                 t1 \in TracksUpTo(MaxLen2), t2 \in TracksUpTo(1)}

\* a note-on at tick 100 whose note-off is at tick 300
SplitExample ==
    [ticks_per_beat |-> 1,
     tracks |-> << <<NoteOn(1, 100), NoteOff(1, 200), EndOfTrack(0)>> >>]

\* the unit widths of the direct calls
UnitWidths == {1, 2, 150}

DirectParams(ticks_per_bar, preserve_first_and_last) ==
    [input_midi_path |-> InPath("a"), num_versions |-> 1,
     ticks_per_bar |-> <<ticks_per_bar>>, phrase_length |-> 1,
     random_seed |-> <<>>,
     preserve_first_and_last |-> preserve_first_and_last]

ReshuffleBars ==
    /\ pc = "direct"
    /\ \E ticks_per_bar \in UnitWidths, preserve_first_and_last \in BOOLEAN :
         LET mid == disk[InPath("a")]
             num_bars == num_bars_of(MaxTrackTicks(mid.tracks), ticks_per_bar)
             n == ShuffledCount(num_bars, preserve_first_and_last)
             output_path == OutPath("a", 1, 1)
         IN /\ num_bars <= MaxUnits
            /\ params' = DirectParams(ticks_per_bar, preserve_first_and_last)
            /\ IF TooFewBars(num_bars)
               THEN /\ error' = "ValueError"
                    /\ pc' = "failed"
                    /\ UNCHANGED <<disk, rng, last, orders, output_paths>>
               ELSE \E draws \in DrawChoices(rng, n) :
                      LET bar_order == CandidateOrder(num_bars,
                                           preserve_first_and_last, draws)
                          res == Reshuffled(mid, ticks_per_bar, bar_order)
                      IN /\ rng' = AfterDraws(rng, n)
                         /\ last' = res
                         /\ disk' = (output_path :> res.new_mid) @@ disk
                         /\ orders' = <<bar_order>>
                         /\ output_paths' = <<output_path>>
                         /\ error' = ""
                         /\ pc' = "returned"
    /\ UNCHANGED <<ticks_per_phrase, num_versions, used_orders, i, attempts,
                   warnings, history, bench, result>>

InitReshuffle ==
    /\ params = NoParams
    /\ ticks_per_phrase = 0
    /\ num_versions = 0
    /\ used_orders = {}
    /\ output_paths = <<>>
    /\ i = 0
    /\ attempts = 0
    /\ warnings = <<>>
    /\ error = ""
    /\ last = NoCall
    /\ orders = <<>>
    /\ history = <<>>
    /\ bench = NoBench
    /\ result = NoResult
    /\ pc = "direct"
    /\ rng = Entropy
    /\ \E f \in InputFiles \cup {SplitExample} : disk = (InPath("a") :> f)

NextReshuffle == ReshuffleBars

SpecReshuffle == InitReshuffle /\ [][NextReshuffle]_vars

----------------------------------------------------------------------------
(* Vocabulary of the properties.                                           *)

IsNoteOn(msg) == msg.type = "note_on" /\ msg.velocity > 0

IsNoteOffLike(msg) ==
    msg.type = "note_off" \/ (msg.type = "note_on" /\ msg.velocity = 0)

CountNoteOns(track) == Cardinality({k \in DOMAIN track : IsNoteOn(track[k])})

\* absolute time of the k-th message of a track: the running sum of deltas
AbsTime(track, k) == SumTimes(SubSeq(track, 1, k))

\* the non-terminal meta events of a track with their absolute times
MetaEvents(track) ==
    LET idx == SelectSeq([k \in DOMAIN track |-> k],
                         LAMBDA k : is_meta(track[k])
                                    /\ track[k].type # "end_of_track")
    IN [j \in DOMAIN idx |-> <<WithTime(track[idx[j]], 0), AbsTime(track, idx[j])>>]

Identity(n) == [k \in 1..n |-> k - 1]

Returned == pc = "returned"

TrackIds == DOMAIN last.mid.tracks

\* the entries of all bars of a segmented track
BarEntries(seg) == Range(Concat(seg.bars))

\* note-ons created by the split of a note that crosses a bar line
SynthNoteOns(seg) ==
    LET all == Concat(seg.bars)
    IN Cardinality({k \in DOMAIN all : all[k].orig = 0 /\ IsNoteOn(all[k].msg)})

\* the notes of a track that have a note-on matched with a note-off, each
\* named by the position of its note-on
MatchedNotes(seg) ==
    {e.of : e \in {x \in BarEntries(seg) :
                      x.orig > 0 /\ x.of > 0 /\ IsNoteOffLike(x.msg)}}

OnOf(seg, n) == CHOOSE e \in BarEntries(seg) : e.orig = n

OffOf(seg, n) ==
    CHOOSE e \in BarEntries(seg) : e.orig > 0 /\ e.of = n /\ IsNoteOffLike(e.msg)

\* how long note n sounds inside one bar: from its note-on in the bar to its
\* note-off in the bar; a bar that holds no note-on of the note is silent
FragmentDuration(bar, n) ==
    LET ons == {e \in Range(bar) : e.of = n /\ IsNoteOn(e.msg)}
        offs == {e \in Range(bar) : e.of = n /\ ~IsNoteOn(e.msg)}
    IN IF ons # {} /\ offs # {}
       THEN (CHOOSE e \in offs : TRUE).rel - (CHOOSE e \in ons : TRUE).rel
       ELSE 0

RECURSIVE SoundingTotal(_, _)
SoundingTotal(bars, n) ==
    IF bars = <<>> THEN 0
    ELSE FragmentDuration(bars[1], n) + SoundingTotal(Tail(bars), n)

----------------------------------------------------------------------------
(* Properties of a direct _reshuffle_bars call (SpecReshuffle).            *)

\* C1: every track of a reshuffled output has total duration (the sum of its
\* delta times) exactly U*W ticks, U = ceil(total_ticks / W).
C1_DurationIsUW ==
    Returned =>
        \A t \in TrackIds :
            SumTimes(last.new_mid.tracks[t]) = last.num_bars * last.ticks_per_bar

\* C5: for a note-on at tick 100 with its note-off at tick 300 and W = 150,
\* unit 0 ends with a synthesized note-off at tick 150, unit 1 holds a note-on
\* at tick 150 and the note-off at tick 300, and with order [1,0] unit 1's
\* events are placed from tick 0 and unit 0's from tick 150.
C5_SplitExample ==
    (/\ Returned
     /\ last.mid = SplitExample
     /\ last.ticks_per_bar = 150
     /\ last.bar_order = <<1, 0>>)
    => LET bars == last.segs[1].bars
       IN /\ \E e \in Range(bars[1]) :
                e.orig = 0 /\ e.msg.type = "note_off" /\ e.abs = 150
                /\ e.rel = 150
          /\ \E e \in Range(bars[2]) : IsNoteOn(e.msg) /\ e.abs = 150
          /\ \E e \in Range(bars[2]) : e.msg.type = "note_off" /\ e.abs = 300
          /\ \A x \in Range(last.all_msgs[1]) :
                /\ x.bar = 1 => x.slot = 0 /\ x.abs \in 0..150
                /\ x.bar = 0 => x.slot = 1 /\ x.abs \in 150..300

\* C6: for every note of the input (a note-on matched with its note-off) the
\* sounding durations of its fragments, summed over all units, equal the
\* note's original duration.
C6_FragmentsSumToDuration ==
    Returned =>
        \A t \in TrackIds :
            \A n \in MatchedNotes(last.segs[t]) :
                SoundingTotal(last.segs[t].bars, n)
                    = OffOf(last.segs[t], n).abs - OnOf(last.segs[t], n).abs

\* C7: the number of note-on events (velocity > 0) of an output track equals
\* the number of note-ons of the input track plus the number of note-ons
\* synthesized by boundary splitting, whatever the order.
C7_NoteOnsConserved ==
    Returned =>
        \A t \in TrackIds :
            CountNoteOns(last.new_mid.tracks[t])
                = CountNoteOns(last.mid.tracks[t]) + SynthNoteOns(last.segs[t])

\* a call that split a note over an intermediate unit and reordered the units
C7_Witness ==
    /\ Returned
    /\ last.bar_order # Identity(last.num_bars)
    /\ \E t \in TrackIds :
          /\ SynthNoteOns(last.segs[t]) >= 1
          /\ CountNoteOns(last.new_mid.tracks[t]) >= 2

\* C8: with the identity order the fragments of every split note re-merge to
\* the note's original span: each synthesized note-off before the note's own
\* note-off is met, at the same tick, by a note-on that continues the note;
\* and every meta event keeps its absolute time.
C8_IdentityRemerges ==
    (Returned /\ last.bar_order = Identity(last.num_bars)) =>
        \A t \in TrackIds :
            /\ \A n \in MatchedNotes(last.segs[t]) :
                 \A x \in Range(last.all_msgs[t]) :
                    (x.of = n /\ x.orig = 0 /\ ~IsNoteOn(x.msg))
                    => \/ x.abs = OffOf(last.segs[t], n).abs
                       \/ \E y \in Range(last.all_msgs[t]) :
                             y.of = n /\ IsNoteOn(y.msg) /\ y.abs = x.abs
            /\ MetaEvents(last.new_mid.tracks[t]) = MetaEvents(last.mid.tracks[t])

\* C9: for every order, every meta event other than the terminal end-marker
\* is in the output track at exactly the absolute time it had in the input.
C9_MetaTimesKept ==
    Returned =>
        \A t \in TrackIds :
            MetaEvents(last.new_mid.tracks[t]) = MetaEvents(last.mid.tracks[t])

\* a reordered call on a track with a meta event past the first unit
C9_Witness ==
    /\ Returned
    /\ last.bar_order # Identity(last.num_bars)
    /\ \E t \in TrackIds :
          \E k \in DOMAIN MetaEvents(last.mid.tracks[t]) :
              MetaEvents(last.mid.tracks[t])[k][2] >= last.ticks_per_bar

----------------------------------------------------------------------------
(* Properties of a generate_shuffled_versions session (Spec, SpecBatch).   *)

\* C2: within one session no two emitted versions use the same unit order:
\* after any number of completed iterations the orders used so far are
\* pairwise different as ordered sequences.
C2_OrdersPairwiseDistinct ==
    /\ \A a, b \in DOMAIN orders : a # b => orders[a] # orders[b]
    /\ Cardinality(used_orders) = Len(orders)

\* a session that emitted three versions and returned
C2_Witness ==
    /\ pc = "done"
    /\ Len(orders) >= 3
    /\ params.num_versions = Len(orders)

\* C3: with preserve_first_and_last and U > 2 every emitted order has unit 0
\* at slot 0, unit U-1 at slot U-1 and a permutation of 1..U-2 between them,
\* and the generated version places the content of unit 0 at slot 0 and of
\* unit U-1 at slot U-1.
C3_EndpointsPreserved ==
    (params.preserve_first_and_last /\ orders # <<>> /\ last.num_bars > 2) =>
        LET U == last.num_bars
        IN /\ \A v \in DOMAIN orders :
                 /\ Len(orders[v]) = U
                 /\ orders[v][1] = 0
                 /\ orders[v][U] = U - 1
                 /\ {orders[v][k] : k \in 2..(U - 1)} = 1..(U - 2)
           /\ \A t \in TrackIds :
                 \A x \in Range(last.all_msgs[t]) :
                    /\ x.bar = 0 <=> x.slot = 0
                    /\ x.bar = U - 1 <=> x.slot = U - 1

\* a session over 4 units that emitted the order with the middle units swapped
C3_Witness ==
    /\ params.preserve_first_and_last
    /\ orders # <<>>
    /\ last.num_bars = 4
    /\ last.bar_order = <<0, 2, 1, 3>>

\* the session in progress (or ended) passed the checks before the loop and
\* was asked for more versions than there are distinct valid orders
Capped ==
    /\ pc \in {"loop", "sample", "done", "failed"}
    /\ error \notin {"FileNotFoundError", "ZeroDivisionError"}
    /\ StartError(params) = ""
    /\ params.preserve_first_and_last \/ NumPhrasesOf(params) >= 0
    /\ params.num_versions
          > calculate_possible_shuffles(NumPhrasesOf(params),
                                        params.preserve_first_and_last)

PossibleNow ==
    calculate_possible_shuffles(NumPhrasesOf(params),
                                params.preserve_first_and_last)

IsPrefix(a, b) == Len(a) <= Len(b) /\ a = SubSeq(b, 1, Len(a))

\* C10: two sessions on the same input with the same parameters and the same
\* non-null random_seed produce the same sequence of unit orders, version by
\* version.
C10_SeededSessionsAgree ==
    /\ \A a, b \in DOMAIN history :
          (history[a].params = history[b].params
           /\ history[a].params.random_seed # <<>>)
          => /\ history[a].orders = history[b].orders
             /\ history[a].error = history[b].error
    /\ \A a \in DOMAIN history :
          (pc \in {"loop", "sample"} /\ history[a].params = params
           /\ params.random_seed # <<>>)
          => IsPrefix(orders, history[a].orders)

\* two completed seeded sessions of at least two versions each, the generator
\* having been elsewhere before the second
C10_Witness ==
    /\ Len(history) = 2
    /\ history[1].params = history[2].params
    /\ history[1].params.random_seed # <<>>
    /\ Len(history[2].orders) >= 2
    /\ history[2].error = ""
    /\ rng.pos > 0

----------------------------------------------------------------------------
(* Errors of a session (Spec, SpecBatch).                                  *)

\* the input of the current request exists
InputExists == params.input_midi_path \in DOMAIN disk

\* the unit width W of the current request is defined: the input exists and
\* ticks_per_bar is passed or a time signature is found
HasWidth ==
    /\ pc # "idle"
    /\ InputExists
    /\ params.ticks_per_bar # <<>>
          \/ TimeSignatures(disk[params.input_midi_path]) # <<>>

\* C11: a request whose unit width W = ticks_per_bar * phrase_length is not
\* positive never returns normally, fails with the error the code raises for
\* a bad configuration (ValueError), samples no order and writes no output.
C11_BadWidthIsConfigurationError ==
    (HasWidth /\ TicksPerPhraseOf(params) <= 0) =>
        /\ pc \notin {"done", "sample"}
        /\ pc = "failed" => error = "ValueError"
        /\ orders = <<>>
        /\ output_paths = <<>>
        /\ disk = Library

\* the current request has a positive unit width and an input of fewer
\* than 2 units
TooShort ==
    /\ HasWidth
    /\ TicksPerPhraseOf(params) > 0
    /\ NumPhrasesOf(params) < 2

\* C12 as stated: a request on an input of fewer than 2 units (U < 2) never
\* returns normally, fails with the error of line 253 (ValueError) and writes
\* no output, for every requested number of versions and either setting of
\* preserve_first_and_last.
C12_TooFewUnitsFails ==
    TooShort =>
        /\ pc \notin {"done", "sample"}
        /\ pc = "failed" => error = "ValueError"
        /\ output_paths = <<>>
        /\ disk = Library

\* C12 as amended: a request for at least one version on an input of fewer
\* than 2 units never returns normally, fails with the error of line 253
\* before an order is sampled and writes no output, for either setting of
\* preserve_first_and_last; a request for zero versions returns no paths.
C12_TooFewUnitsFailsWhenAsked ==
    TooShort =>
        /\ pc # "sample"
        /\ pc = "failed" => error = "ValueError"
        /\ pc = "done" => params.num_versions = 0
        /\ output_paths = <<>>
        /\ orders = <<>>
        /\ disk = Library

\* a request for more than one version of a one-unit input, endpoints
\* preserved, has failed
C12_Witness ==
    /\ TooShort
    /\ NumPhrasesOf(params) = 1
    /\ params.num_versions >= 2
    /\ params.preserve_first_and_last
    /\ pc = "failed"
    /\ error = "ValueError"

\* the exception a request with a bad configuration ends with: that of the
\* current request with phrase_length 0 (line 139)
ConfigurationError == StartError([params EXCEPT !.phrase_length = 0])

\* the retry loop of the current version gave up (line 282)
Exhausted == pc = "failed" /\ attempts = max_attempts

\* C13: the retry loop ends: while it draws, fewer than 100 draws have been
\* rejected, every accepted order was not in the used set, and after the
\* 100th rejected draw the loop stops with an exception that a caller can
\* tell from the exception of a configuration error by its class.
C13_RetryLoopEndsDistinguishably ==
    /\ attempts <= max_attempts
    /\ pc = "sample" => attempts < max_attempts
    /\ Cardinality(used_orders) = Len(orders)
    /\ (InputExists /\ Exhausted) => error # ConfigurationError

----------------------------------------------------------------------------
(* Output files of a batch (SpecBatch).                                    *)

\* the paths written so far, in the order of the writes: those of the
\* sessions that ended and those of the session under way
AllWrites ==
    Concat([k \in DOMAIN history |-> history[k].output_paths])
        \o (IF pc \in {"loop", "sample"} THEN output_paths ELSE <<>>)

\* C14: every version is written to a fresh path: over the sessions of a
\* batch no write targets a path that an earlier write of the batch produced.
C14_WritesAreFresh ==
    \A a, b \in DOMAIN AllWrites : a # b => AllWrites[a] # AllWrites[b]

----------------------------------------------------------------------------
(* The first checks of generate_shuffled_versions (Spec, SpecBatch).       *)

\* C15: a call whose input does not exist, or whose phrase_length is below
\* 1, ends at once, with FileNotFoundError in the first case and otherwise
\* with ValueError, and changes nothing: the files, the random generator and
\* the warnings stay as they were, no order is sampled and no output written.
C15_EarlyChecksChangeNothing ==
    [][(pc \notin {"loop", "sample"}
        /\ (params'.input_midi_path \notin DOMAIN disk
            \/ params'.phrase_length < 1))
       => /\ pc' = "failed"
          /\ error' = (IF params'.input_midi_path \notin DOMAIN disk
                       THEN "FileNotFoundError" ELSE "ValueError")
          /\ disk' = disk
          /\ rng' = rng
          /\ warnings' = warnings
          /\ orders' = <<>>
          /\ output_paths' = <<>>
          /\ Len(history') = Len(history) + 1]_vars

\* a seeded call with phrase_length 0 on a missing input has failed with
\* FileNotFoundError, the generator being where it was
C15_Witness ==
    /\ pc = "failed"
    /\ ~InputExists
    /\ params.phrase_length < 1
    /\ params.random_seed # <<>>
    /\ params.num_versions > 0
    /\ error = "FileNotFoundError"
    /\ rng # Seeded(params.random_seed[1])

----------------------------------------------------------------------------
(* The benchmark scorers (src/scripts/run_*.py). A scorer is run on a      *)
(* suite of a few conditions; the scoring function is the table bench.nll  *)
(* (one row per condition, one NLL per candidate) and, for the scorers     *)
(* that correlate, bench.corr holds the coefficients scipy / pandas hand   *)
(* back. Numbers are exact fractions.                                      *)

MaxConditions == 2    \* conditions (keys, pitches, intervals) of a suite

NllValues == {1, 2, 3}

\* the candidates of a condition; B is the intended one
Candidates == <<"A", "B", "C">>
Correct == CHOOSE k \in DOMAIN Candidates : Candidates[k] = "B"

\* run_cadence.py lines 46, 51: the tonic keys and the keys resolved to
TonicKeys == <<60, 61>>
Resolutions == <<0, 1>>

\* run_cadence.py lines 85-89: the qualities in the order of pd.concat
Qualities == <<"maj", "min", "dim">>

\* run_cadence.py lines 85-89: the row labels of all_results, "0_maj" first
CadenceOptions ==
    [k \in 1..(Len(Qualities) * Len(Resolutions)) |->
        [key |-> Resolutions[((k - 1) % Len(Resolutions)) + 1],
         quality |-> Qualities[((k - 1) \div Len(Resolutions)) + 1]]]

\* run_cadence.py line 90: the row "0_maj"
Tonic == CHOOSE k \in DOMAIN CadenceOptions :
             CadenceOptions[k] = [key |-> 0, quality |-> "maj"]

\* the NLLs of the cadence files
CadenceNlls == {1, 2}

Abs(x) == IF x < 0 THEN -x ELSE x

RECURSIVE GCD(_, _)
GCD(a, b) == IF b = 0 THEN a ELSE GCD(b, a % b)

\* the fraction n / d (d > 0) in lowest terms
Frac(n, d) ==
    LET g == GCD(Abs(n), d) IN [num |-> n \div g, den |-> d \div g]

FracAdd(a, b) == Frac(a.num * b.den + b.num * a.den, a.den * b.den)

RECURSIVE FracSum(_)
FracSum(s) == IF s = <<>> THEN Frac(0, 1) ELSE FracAdd(s[1], FracSum(Tail(s)))

\* Mean without the division by the length
Mean_Unscaled(s) == FracSum(s)

\* np.mean and Series.mean over a non-empty list of numbers
Mean(s) == LET t == FracSum(s) IN Frac(t.num, t.den * Len(s))

\* a Python float, and a numpy array of floats
Float(x) == [kind |-> "float", value |-> <<x>>]
Array(s) == [kind |-> "array", value |-> s]

\* DataFrame.rank (method "average", ascending) of v[k] within v, doubled
TwiceRank(v, k) ==
    2 * Cardinality({j \in DOMAIN v : v[j] < v[k]})
        + Cardinality({j \in DOMAIN v : v[j] = v[k]}) + 1

\* cadence_percentile with the NLLs ranked as they are, not negated
cadence_percentile_Unnegated(v) == Frac(TwiceRank(v, Tonic), 2 * Len(v))

\* run_cadence.py lines 89-92: (-all_results).rank(0, pct=True) of "0_maj";
\* v is the column of all_results of one tonic key
cadence_percentile(v) ==
    Frac(TwiceRank([j \in DOMAIN v |-> -v[j]], Tonic), 2 * Len(v))

\* run_scale_filling.py line 76: the 1-based place of the correct completion,
\* the last entry of incorrect + [correct], in the ascending (stable) order
correct_scale_rank(v) ==
    Cardinality({j \in DOMAIN v : j # Correct /\ v[j] <= v[Correct]}) + 1

\* run_scale_filling.py line 82
scale_percentile(v) == Frac((24 - correct_scale_rank(v)) + 1, 24)

\* run_scale_filling.py lines 75-78: the rows are taken at the indices
\* range(-12, 13) of the 25 pitches, i.e. the second half first
RowOrder(n) == [j \in 1..n |-> ((j - 1 + (n - n \div 2)) % n) + 1]

\* run_interval_recognition.py lines 75-76, 84, 90: NLLs relative to the
\* lowest one, ranked, ((24 - rank) + 1) / 24
interval_percentile(v) ==
    LET min_nll == CHOOSE x \in Range(v) : \A y \in Range(v) : x <= y
        rel == [j \in DOMAIN v |-> v[j] - min_nll]
    IN Frac(50 - TwiceRank(rel, Correct), 48)

RankScorers ==
    {"run_cadence_prediction_benchmark", "run_scale_filling_benchmark",
     "run_interval_recognition_benchmark"}

CorrelationScorers ==
    {"get_transposition_invariance", "human_chord_comparison",
     "run_glass_benchmark", "run_mussorgsky_benchmark",
     "human_melody_comparison"}

\* the detail table of a rank scorer: the percentile of the correct
\* candidate per condition
Percentiles(b) ==
    LET n == Len(b.nll)
    IN CASE b.scorer = "run_cadence_prediction_benchmark" ->
              [c \in 1..n |-> cadence_percentile(b.nll[c])]
         [] b.scorer = "run_scale_filling_benchmark" ->
              [c \in 1..n |-> scale_percentile(b.nll[RowOrder(n)[c]])]
         [] b.scorer = "run_interval_recognition_benchmark" ->
              [c \in 1..n |-> interval_percentile(b.nll[c])]

\* what the scorer returns for the data b: the pair (table, second) when
\* return_all_results, else a single value
RunOf(b, return_all_results) ==
    LET pair(table, second) == [table |-> table, second |-> second]
    IN CASE b.scorer \in RankScorers ->
              \* run_cadence.py 93-97, run_scale_filling.py 84-88,
              \* run_interval_recognition.py 92-96
              LET mean_percentile == Float(Mean(Percentiles(b)))
              IN IF return_all_results
                 THEN pair(Percentiles(b), mean_percentile)
                 ELSE mean_percentile
         [] b.scorer = "get_transposition_invariance" ->
              \* run_transposition_invariance.py 74-78
              LET invariance == Array(b.corr)
              IN IF return_all_results
                 THEN pair(b.nll, invariance)
                 ELSE Float(Mean(b.corr))
         [] b.scorer = "human_melody_comparison" ->
              \* run_melody_continuation.py 117-121
              LET mean_correlation == Float(Mean(b.corr))
              IN IF return_all_results
                 THEN pair(b.corr, mean_correlation)
                 ELSE mean_correlation
         [] OTHER ->
              \* run_chord_alignment.py 72-79, run_glass.py 70-74,
              \* run_mussorgsky.py 73-77
              LET correlation == Float(b.corr[1])
              IN IF return_all_results
                 THEN pair(b.nll, correlation)
                 ELSE correlation

\* the NLL tables of the suites explored
Tables ==
    UNION {[1..n -> [DOMAIN Candidates -> NllValues]] : n \in 1..MaxConditions}

\* the coefficients a correlation can come out as
CorrValues == {Frac(-1, 2), Frac(0, 1), Frac(1, 3), Frac(1, 1)}

\* run_cadence.py lines 42-89: one column of all_results per tonic key
CadenceTables == [DOMAIN TonicKeys -> [DOMAIN CadenceOptions -> CadenceNlls]]

Benches ==
    {[scorer |-> s, nll |-> t, corr |-> <<>>] :
        s \in RankScorers \ {"run_cadence_prediction_benchmark"}, t \in Tables}
        \cup {[scorer |-> "run_cadence_prediction_benchmark", nll |-> t,
                corr |-> <<>>] : t \in CadenceTables}
        \cup {[scorer |-> s, nll |-> <<>>, corr |-> v] :
                 s \in CorrelationScorers,
                 v \in UNION {[1..n -> CorrValues] : n \in 1..MaxConditions}}

\* one call of the scorer, with either value of return_all_results
RunScorer ==
    /\ pc = "bench"
    /\ \E return_all_results \in BOOLEAN :
         IF return_all_results
         THEN /\ result.all = <<>>
              /\ result' = [result EXCEPT !.all = <<RunOf(bench, TRUE)>>]
         ELSE /\ result.score = <<>>
              /\ result' = [result EXCEPT !.score = <<RunOf(bench, FALSE)>>]
    /\ UNCHANGED <<disk, rng, pc, params, ticks_per_phrase, num_versions,
                   used_orders, output_paths, i, attempts, warnings, error,
                   last, orders, history, bench>>

InitScorers ==
    /\ params = NoParams
    /\ ticks_per_phrase = 0
    /\ num_versions = 0
    /\ used_orders = {}
    /\ output_paths = <<>>
    /\ i = 0
    /\ attempts = 0
    /\ warnings = <<>>
    /\ error = ""
    /\ last = NoCall
    /\ orders = <<>>
    /\ history = <<>>
    /\ disk = Library
    /\ rng = Entropy
    /\ pc = "bench"
    /\ bench \in Benches
    /\ result = NoResult

NextScorers == RunScorer

SpecScorers == InitScorers /\ [][NextScorers]_vars

----------------------------------------------------------------------------
(* Properties of the scorers (SpecScorers).                                *)

\* the scorer was called with return_all_results True and with False
BothReturned == result.all # <<>> /\ result.score # <<>>

\* the value returned with return_all_results False
ScoreOnly == result.score[1]

\* the second component of the pair returned with return_all_results True
ScoreOfPair == result.all[1].second

\* s times the fraction f
Times(s, f) == Frac(s * f.num, f.den)

\* C16 as stated: for every scorer the call with return_all_results True
\* returns a pair whose second component is a single number, equal to the
\* value the call with return_all_results False returns on the same data.
C16_PairHoldsTheScore ==
    BothReturned =>
        /\ ScoreOfPair.kind = "float"
        /\ ScoreOfPair = ScoreOnly

\* C16 as amended: the value returned with return_all_results False is a
\* single number; for every scorer but get_transposition_invariance it is
\* the second component of the pair returned with True (and the mean of the
\* percentiles of the detail table for the rank scorers), while
\* get_transposition_invariance returns as second component the array of
\* correlations whose mean is that number.
C16_PairHoldsTheScoreOrItsTerms ==
    BothReturned =>
        /\ ScoreOnly.kind = "float"
        /\ IF bench.scorer = "get_transposition_invariance"
           THEN /\ ScoreOfPair.kind = "array"
                /\ FracSum(ScoreOfPair.value)
                      = Times(Len(ScoreOfPair.value), ScoreOnly.value[1])
           ELSE ScoreOfPair = ScoreOnly
        /\ bench.scorer \in RankScorers =>
              FracSum(result.all[1].table)
                 = Times(Len(bench.nll), ScoreOnly.value[1])

\* a rank scorer was called both ways on a suite of two conditions and the
\* correct candidate is not the best one everywhere
C16_Witness ==
    /\ BothReturned
    /\ bench.scorer = "run_cadence_prediction_benchmark"
    /\ Len(bench.nll) = 2
    /\ ScoreOnly # Float(Frac(1, 1))
    /\ result.all[1].table[1] # result.all[1].table[2]

\* the correct candidate has strictly the lowest NLL of the condition v
CorrectIsBest(v) == \A k \in DOMAIN v : k # Correct => v[Correct] < v[k]

\* the tonic resolution has strictly the lowest NLL of the column v
TonicIsBest(v) == \A k \in DOMAIN v : k # Tonic => v[Tonic] < v[k]

\* the condition that row j of the detail table of a rank scorer is about
ConditionOfRow(j) ==
    IF bench.scorer = "run_scale_filling_benchmark"
    THEN RowOrder(Len(bench.nll))[j]
    ELSE j

\* C17: in the rank scorers, a condition whose correct candidate has strictly
\* the lowest NLL gets the best percentile, 1 (100%); so does the condition
\* with the NLLs [2, 1, 3] for [A, B, C], B correct: rank 1 of 3.
C17_BestRankIsFullPercentile ==
    (bench.scorer \in RankScorers /\ result.all # <<>>) =>
        \A j \in DOMAIN result.all[1].table :
            LET v == bench.nll[ConditionOfRow(j)]
            IN /\ (IF bench.scorer = "run_cadence_prediction_benchmark"
                   THEN TonicIsBest(v) ELSE CorrectIsBest(v))
                     => result.all[1].table[j] = Frac(1, 1)
               /\ v = <<2, 1, 3>> => result.all[1].table[j] = Frac(1, 1)

\* the cadence scorer returned its table for a key whose tonic is the best
\* resolution and for a key whose tonic is not
C17_Witness ==
    /\ bench.scorer = "run_cadence_prediction_benchmark"
    /\ result.all # <<>>
    /\ bench.nll = << <<1, 2, 2, 2, 2, 2>>, <<2, 1, 2, 2, 1, 2>> >>
    /\ result.all[1].table = <<Frac(1, 1), Frac(5, 12)>>

----------------------------------------------------------------------------
(* Properties of the segmentation (SpecReshuffle).                         *)

\* the 0-based unit that holds the copy of the input message at position o
UnitOfOrig(seg, o) ==
    CHOOSE k \in 0..(Len(seg.bars) - 1) :
        \E e \in Range(seg.bars[k + 1]) : e.orig = o

\* the synthesized entries of note n in unit k
SynthOf(seg, k, n) ==
    LET bar == seg.bars[k + 1]
    IN {j \in DOMAIN bar : bar[j].orig = 0 /\ bar[j].of = n}

\* C18: for a matched note with its note-on in unit a and its note-off in a
\* later unit b, segmentation adds to unit a a note-off at local time W, to
\* every unit strictly between a and b a note-on at local time 0 and a
\* note-off at local time W, to no other unit anything, and keeps the
\* original note-off in unit b at its true relative time.
C18_SplitRule ==
    Returned =>
        \A t \in TrackIds :
            LET seg == last.segs[t]
                W == last.ticks_per_bar
            IN \A n \in MatchedNotes(seg) :
                 LET off == OffOf(seg, n)
                     a == UnitOfOrig(seg, n)
                     b == UnitOfOrig(seg, off.orig)
                 IN b > a =>
                      /\ off.rel = off.abs - b * W
                      /\ \A k \in 0..(last.num_bars - 1) :
                           LET bar == seg.bars[k + 1]
                               ons == {j \in SynthOf(seg, k, n) :
                                          IsNoteOn(bar[j].msg)}
                               offs == {j \in SynthOf(seg, k, n) :
                                          bar[j].msg.type = "note_off"}
                           IN /\ SynthOf(seg, k, n) = ons \cup offs
                              /\ \A j \in ons : bar[j].rel = 0
                              /\ \A j \in offs : bar[j].rel = W
                              /\ Cardinality(offs) =
                                    (IF a <= k /\ k < b THEN 1 ELSE 0)
                              /\ Cardinality(ons) =
                                    (IF a < k /\ k < b THEN 1 ELSE 0)

\* a note that starts in unit 0 and ends in unit 2, written in a changed
\* order
C18_Witness ==
    /\ Returned
    /\ last.bar_order # Identity(last.num_bars)
    /\ \E t \in TrackIds :
         \E n \in MatchedNotes(last.segs[t]) :
            /\ UnitOfOrig(last.segs[t], n) = 0
            /\ UnitOfOrig(last.segs[t], OffOf(last.segs[t], n).orig) = 2

\* the places (unit, position) of the copies of input message o in the units
PlacesOf(seg, o) ==
    {<<k, j>> \in (0..(Len(seg.bars) - 1)) \X (1..Len(Concat(seg.bars))) :
        j \in DOMAIN seg.bars[k + 1] /\ seg.bars[k + 1][j].orig = o}

\* input message o of track t is in exactly one unit, the unit
\* min(floor(abs_time / W), U - 1)
InItsUnit(t, o) ==
    LET seg == last.segs[t]
        abs_time == AbsTime(last.mid.tracks[t], o)
    IN /\ Cardinality(PlacesOf(seg, o)) = 1
       /\ \A p \in PlacesOf(seg, o) :
             /\ p[1] = Min(abs_time \div last.ticks_per_bar, last.num_bars - 1)
             /\ seg.bars[p[1] + 1][p[2]].abs = abs_time
             /\ WithTime(seg.bars[p[1] + 1][p[2]].msg, 0)
                   = WithTime(last.mid.tracks[t][o], 0)

\* C19 as stated: segmentation assigns every event of a track to exactly one
\* unit, the unit min(floor(abs_time / W), U - 1), abs_time being the running
\* sum of the deltas; no event is dropped and none is in two units.
C19_EveryEventInOneUnit ==
    Returned =>
        \A t \in TrackIds :
            \A o \in DOMAIN last.mid.tracks[t] : InItsUnit(t, o)

\* C19 as amended: every event that is not a meta event, and the
\* end-marker, is in exactly one unit, the unit min(floor(abs_time / W),
\* U - 1); every other meta event is in no unit and is kept once, with its
\* absolute time, in the list of meta events.
C19_EveryNonMetaEventInOneUnit ==
    Returned =>
        \A t \in TrackIds :
            \A o \in DOMAIN last.mid.tracks[t] :
                LET msg == last.mid.tracks[t][o]
                    metas == last.segs[t].meta_messages
                IN IF is_meta(msg) /\ msg.type # "end_of_track"
                   THEN /\ PlacesOf(last.segs[t], o) = {}
                        /\ Cardinality({j \in DOMAIN metas :
                                           metas[j].orig = o}) = 1
                        /\ \A j \in DOMAIN metas :
                              metas[j].orig = o =>
                                 metas[j].abs = AbsTime(last.mid.tracks[t], o)
                   ELSE InItsUnit(t, o)

\* a track with a meta event, an event on the line between units 0 and 1,
\* and an event at the very end of the last unit, which the clamp keeps in it
C19_Witness ==
    /\ Returned
    /\ last.num_bars = 3
    /\ \E t \in TrackIds :
         LET track == last.mid.tracks[t]
         IN /\ \E o \in DOMAIN track : track[o].type = "set_tempo"
            /\ \E o \in DOMAIN track :
                  /\ ~is_meta(track[o])
                  /\ AbsTime(track, o) = last.ticks_per_bar
            /\ \E o \in DOMAIN track :
                  AbsTime(track, o) = last.num_bars * last.ticks_per_bar

\* the note-ons of input track t that are still open at the end of the
\* track: no later note-off (or note-on of velocity 0) of the same channel
\* and note follows them, and no later note-on of that key, which would
\* take the key over
OpenNoteOns(t) ==
    LET track == last.mid.tracks[t]
    IN {o \in DOMAIN track :
          /\ IsNoteOn(track[o])
          /\ \A q \in DOMAIN track :
                (q > o /\ (IsNoteOffLike(track[q]) \/ IsNoteOn(track[q])))
                => note_key(track[q]) # note_key(track[o])}

\* C20: a note-on with no matching note-off by the end of its track is closed
\* by exactly one synthesized note-off, in the unit where the note started,
\* at the absolute time equal to the total length of its own track.
C20_ForceCloseAtOwnTrackEnd ==
    Returned =>
        \A t \in TrackIds :
            \A o \in OpenNoteOns(t) :
                LET seg == last.segs[t]
                    closes == {e \in BarEntries(seg) : e.orig = 0 /\ e.of = o}
                IN /\ Cardinality(closes) = 1
                   /\ \A e \in closes :
                         /\ e.msg.type = "note_off"
                         /\ e \in Range(seg.bars[UnitOfOrig(seg, o) + 1])
                         /\ e.abs = SumTimes(last.mid.tracks[t])

\* the state of the loop over the messages of track t (lines 292-296) after
\* its first n messages
SegmentedUpTo(t, n) ==
    SegmentLoop([bars |-> [k \in 1..last.num_bars |-> <<>>],
                 meta_messages |-> <<>>,
                 active_notes |-> <<>>,
                 abs_time |-> 0],
                SubSeq(last.mid.tracks[t], 1, n), 1,
                last.ticks_per_bar, last.num_bars)

\* message o of track t is a note-off (or a note-on of velocity 0) that
\* arrives when no note of its channel and pitch is open
UnmatchedOff(t, o) ==
    /\ IsNoteOffLike(last.mid.tracks[t][o])
    /\ ~ActiveHas(SegmentedUpTo(t, o - 1).active_notes,
                  note_key(last.mid.tracks[t][o]))

\* C21: a note-off (or note-on of velocity 0) that arrives when no note is
\* open for its channel and pitch is passed through unchanged: the call
\* returns, the message goes once to the unit of its own absolute time at
\* its true relative time, nothing is synthesized for it, the active-note
\* table stays as it was, and the output track holds it once.
C21_UnmatchedOffPassesThrough ==
    Returned =>
        \A t \in TrackIds :
            \A o \in DOMAIN last.mid.tracks[t] :
                UnmatchedOff(t, o) =>
                    LET msg == last.mid.tracks[t][o]
                        W == last.ticks_per_bar
                        before == SegmentedUpTo(t, o - 1)
                        after == SegmentedUpTo(t, o)
                        abs_time == AbsTime(last.mid.tracks[t], o)
                        k == Min(abs_time \div W, last.num_bars - 1)
                    IN /\ after.active_notes = before.active_notes
                       /\ after.meta_messages = before.meta_messages
                       /\ after.bars =
                             [before.bars EXCEPT ![k + 1] =
                                 Append(@, Entry(msg, abs_time - k * W,
                                                 abs_time, o, 0))]
                       /\ InItsUnit(t, o)
                       /\ \A e \in BarEntries(last.segs[t]) :
                             e.orig = 0 => e.of # o
                       /\ Cardinality({j \in DOMAIN last.all_msgs[t] :
                                          last.all_msgs[t][j].orig = o}) = 1

\* a track with a note-on of velocity 0 that arrives after unit 0 with no
\* note open, and with a matched note as well
C21_Witness ==
    /\ Returned
    /\ \E t \in TrackIds :
         /\ \E o \in DOMAIN last.mid.tracks[t] :
               /\ UnmatchedOff(t, o)
               /\ last.mid.tracks[t][o].type = "note_on"
               /\ AbsTime(last.mid.tracks[t], o) >= last.ticks_per_bar
         /\ MatchedNotes(last.segs[t]) # {}

----------------------------------------------------------------------------
(* Properties of the rebuilt tracks (SpecReshuffle).                       *)

\* C22: in every output track each unit event placed at slot s has the new
\* absolute time s*W + its local relative time, the combined list of unit
\* events and meta events is in non-decreasing order of new absolute time,
\* every delta time is non-negative, and the running sum of the deltas up to
\* an event is that event's new absolute time.
C22_RelinearizedTimes ==
    Returned =>
        \A t \in TrackIds :
            LET all == last.all_msgs[t]
                out == last.new_mid.tracks[t]
                seg == last.segs[t]
                W == last.ticks_per_bar
            IN /\ Len(all) = Len(Concat(seg.bars)) + Len(seg.meta_messages)
               /\ \A j \in DOMAIN all :
                     all[j].slot >= 0 =>
                        /\ last.bar_order[all[j].slot + 1] = all[j].bar
                        /\ \E e \in Range(seg.bars[all[j].bar + 1]) :
                              /\ e.msg = all[j].msg
                              /\ e.orig = all[j].orig
                              /\ e.of = all[j].of
                              /\ all[j].abs = all[j].slot * W + e.rel
               /\ \A j \in DOMAIN all :
                     j > 1 => all[j - 1].abs <= all[j].abs
               /\ Len(out) \in {Len(all), Len(all) + 1}
               /\ \A j \in DOMAIN out : out[j].time >= 0
               /\ \A j \in DOMAIN all :
                     /\ AbsTime(out, j) = all[j].abs
                     /\ WithTime(out[j], 0) = WithTime(all[j].msg, 0)

\* three units written in reverse order, with a meta event after tick 0 and
\* events in two different units
C22_Witness ==
    /\ Returned
    /\ last.bar_order = <<2, 1, 0>>
    /\ \E t \in TrackIds :
         /\ \E j \in DOMAIN last.all_msgs[t] :
               last.all_msgs[t][j].slot = -1 /\ last.all_msgs[t][j].abs > 0
         /\ \E j, k \in DOMAIN last.all_msgs[t] :
               /\ last.all_msgs[t][j].slot = 0
               /\ last.all_msgs[t][k].slot = 2
               /\ last.all_msgs[t][k].abs > 2 * last.ticks_per_bar

\* C23: the input's end_of_track is no event of any unit, and every output
\* track, for every order, holds exactly one end_of_track, as its last entry.
C23_OneEndMarkerLast ==
    Returned =>
        \A t \in TrackIds :
            LET out == last.new_mid.tracks[t]
            IN /\ \A e \in BarEntries(last.segs[t]) :
                     e.msg.type # "end_of_track"
               /\ Len(out) > 0
               /\ \A j \in DOMAIN out :
                     out[j].type = "end_of_track" <=> j = Len(out)

----------------------------------------------------------------------------
(* The number of possible shuffles and the orders the sampler returns.     *)

\* the count as the specification words it
ClaimedShuffles(U, preserve) ==
    IF preserve /\ U > 2 THEN Factorial(U - 2) ELSE Factorial(U)

\* the orders that are valid: bijections from slots to unit indices, with
\* both endpoints fixed when preserve is set
ValidOrders(U, preserve) ==
    {p \in [1..U -> 0..(U - 1)] :
        /\ \A a, b \in 1..U : p[a] = p[b] => a = b
        /\ (preserve /\ U > 0) => (p[1] = 0 /\ p[U] = U - 1)}

\* a session that got past the computation of possible_shuffles, with a
\* unit count that is a natural number
CountedShuffles ==
    /\ pc \in {"loop", "sample", "done", "failed"}
    /\ error \notin {"FileNotFoundError", "ZeroDivisionError"}
    /\ StartError(params) = ""
    /\ NumPhrasesOf(params) >= 0

\* C24 as stated: _calculate_possible_shuffles(U, preserve) is (U-2)! when
\* preserve is true and U > 2 and U! in every other case, and that is the
\* number the request is capped by.
C24_CountIsFactorial ==
    CountedShuffles =>
        LET claimed == ClaimedShuffles(NumPhrasesOf(params),
                                       params.preserve_first_and_last)
        IN /\ PossibleNow = claimed
           /\ num_versions = Min(params.num_versions, claimed)

\* C24 as amended: _calculate_possible_shuffles(U, preserve) is U! when
\* preserve is false, (U-2)! when preserve is true and U > 2, and 1 when
\* preserve is true and U <= 2; it is the number of distinct valid orders,
\* and the request is capped by it.
C24_CountIsNumberOfValidOrders ==
    CountedShuffles =>
        LET U == NumPhrasesOf(params)
            preserve == params.preserve_first_and_last
        IN /\ PossibleNow = (IF ~preserve THEN Factorial(U)
                             ELSE IF U > 2 THEN Factorial(U - 2) ELSE 1)
           /\ PossibleNow = Cardinality(ValidOrders(U, preserve))
           /\ num_versions = Min(params.num_versions, PossibleNow)

\* two units with the endpoints preserved and two versions requested: one
\* possible order, the request capped to 1
C24_Witness ==
    /\ pc = "loop"
    /\ params.preserve_first_and_last
    /\ NumPhrasesOf(params) = 2
    /\ params.num_versions = 2
    /\ num_versions = 1
    /\ warnings = <<[requested |-> 2, possible |-> 1]>>

\* C25: every order the sampler returns, with or without
\* preserve_first_and_last and for every U >= 2, is a bijection from the
\* slots 0..U-1 to the unit indices 0..U-1, so that the content of every unit
\* is in the output exactly once; with preserve_first_and_last and U = 2 the
\* only order returned is the identity.
C25_OrdersAreBijections ==
    (orders # <<>> /\ last.num_bars >= 2) =>
        LET U == last.num_bars
        IN /\ \A v \in DOMAIN orders :
                 /\ Len(orders[v]) = U
                 /\ {orders[v][k] : k \in 1..U} = 0..(U - 1)
                 /\ (params.preserve_first_and_last /\ U = 2)
                       => orders[v] = <<0, 1>>
           /\ \A t \in TrackIds :
                 \A b \in 0..(U - 1) :
                    LET bar == last.segs[t].bars[b + 1]
                        items == SelectSeq(last.all_msgs[t],
                                           LAMBDA x : x.bar = b)
                    IN /\ Len(items) = Len(bar)
                       /\ \A k \in DOMAIN bar :
                             \E j \in DOMAIN items :
                                /\ items[j].msg = bar[k].msg
                                /\ items[j].orig = bar[k].orig
                                /\ items[j].of = bar[k].of
                       /\ \A j, k \in DOMAIN items :
                             items[j].slot = items[k].slot

\* a session without preserve_first_and_last over 3 units whose second
\* version rotates the units
C25_Witness ==
    /\ ~params.preserve_first_and_last
    /\ Len(orders) = 2
    /\ last.num_bars = 3
    /\ last.bar_order = <<2, 0, 1>>
    /\ \E t \in TrackIds : \A b \in 1..3 : last.segs[t].bars[b] # <<>>

----------------------------------------------------------------------------
(* Properties of the cadence scorer (SpecScorers).                         *)

\* the resolution options of the tonic's own quality: one per key resolved to
MajorOptions ==
    {j \in DOMAIN CadenceOptions :
        CadenceOptions[j].quality = CadenceOptions[Tonic].quality}

\* the percentile (average rank, best NLL highest) of the tonic of the column
\* v within the options among
PercentileWithin(v, among) ==
    Frac(2 * Cardinality({j \in among : -v[j] < -v[Tonic]})
            + Cardinality({j \in among : v[j] = v[Tonic]}) + 1,
         2 * Cardinality(among))

\* C26: in the cadence scorer, for each tonic key the tonic resolution (key
\* 0, major) is ranked among the resolution options of that key, one per key
\* resolved to, and the reported percentile of the tonic is its rank within
\* those options.
C26_TonicRankedAmongKeyOptions ==
    (bench.scorer = "run_cadence_prediction_benchmark" /\ result.all # <<>>) =>
        /\ Cardinality(MajorOptions) = Len(Resolutions)
        /\ Len(result.all[1].table) = Len(TonicKeys)
        /\ \A c \in DOMAIN TonicKeys :
              result.all[1].table[c]
                 = PercentileWithin(bench.nll[c], MajorOptions)

\* what the code reports: the percentile of the tonic within all the files
\* of the key, the three qualities together
TonicRankedAmongAllQualities ==
    (bench.scorer = "run_cadence_prediction_benchmark" /\ result.all # <<>>) =>
        \A c \in DOMAIN TonicKeys :
            result.all[1].table[c]
               = PercentileWithin(bench.nll[c], DOMAIN CadenceOptions)

----------------------------------------------------------------------------
(* Track transposition (src/generators/track_transposition.py).            *)
(* generate_transposed_versions uses pc ("idle", "transposing",            *)
(* "transposed", "failed"), params (its arguments), i (the number of       *)
(* transpose_track calls made), output_paths, disk and error.              *)

MaxIndices == 2    \* longest track_indices list passed

\* the track indices and the semitones passed
TrackIndexValues == {-1, 0, 1, 2}
Semitones == {-2, 0, 1, 127}

\* an input of two tracks with notes at both ends of the MIDI range, a
\* polytouch and a control change
FileT ==
    [ticks_per_beat |-> 1,
     tracks |-> << <<NoteOn(127, 0), Msg("polytouch", 127, 0, 1),
                     NoteOff(127, 1), EndOfTrack(0)>>,
                   <<Msg("control_change", 0, 0, 0), NoteOn(1, 0),
                     NoteOff(1, 2), EndOfTrack(0)>> >>]

TransposeLibrary == (InPath("t") :> FileT) @@ Library

\* line 67: f"{stem}_track{track_idx}_{direction}{abs(semitones)}{suffix}"
\* in output_dir
TransposedPath(stem, track_idx, direction, semitones) ==
    [dir |-> "out", stem |-> stem, track |-> track_idx,
     direction |-> direction, amount |-> Abs(semitones)]

TransposeParams ==
    [input_midi_path : {InPath(st) : st \in Stems \cup {"t"}},
     track_indices : UNION {[1..n -> TrackIndexValues] : n \in 0..MaxIndices},
     semitones : Semitones]

\* the validation that looks at the first requested index only
InvalidIndices_FirstOnly(track_indices, num_tracks) ==
    {k \in DOMAIN track_indices :
        k = 1 /\ (track_indices[k] < 0 \/ track_indices[k] >= num_tracks)}

\* lines 57-59: the positions of the list that hold an invalid track index
InvalidIndices(track_indices, num_tracks) ==
    {k \in DOMAIN track_indices :
        track_indices[k] < 0 \/ track_indices[k] >= num_tracks}

\* lines 113-116: the copy of msg of track idx (0-based, the code's i) in the
\* output
TransposedMsg(msg, idx, track_index, semitones) ==
    IF idx = track_index /\ has_note(msg) /\ msg.type \in {"note_on", "note_off"}
    THEN [msg EXCEPT !.note = Max(0, Min(127, msg.note + semitones))]
    ELSE msg

\* lines 103-120: new_mid
TransposedFile(mid, track_index, semitones) ==
    [ticks_per_beat |-> mid.ticks_per_beat,
     tracks |-> [t \in DOMAIN mid.tracks |->
                   [k \in DOMAIN mid.tracks[t] |->
                      TransposedMsg(mid.tracks[t][k], t - 1, track_index,
                                    semitones)]]]

\* lines 48-59: the call up to the end of the validation
GenerateTransposedVersions ==
    /\ pc = "idle"
    /\ \E p \in TransposeParams :
         /\ params' = p
         /\ IF p.input_midi_path \notin DOMAIN disk
            THEN /\ error' = "FileNotFoundError"
                 /\ pc' = "failed"
            ELSE IF InvalidIndices(p.track_indices,
                                   Len(disk[p.input_midi_path].tracks)) # {}
            THEN /\ error' = "ValueError"
                 /\ pc' = "failed"
            ELSE /\ error' = ""
                 /\ pc' = "transposing"
    /\ i' = 0
    /\ output_paths' = <<>>
    /\ UNCHANGED <<disk, rng, ticks_per_phrase, num_versions, used_orders,
                   attempts, warnings, last, orders, history, bench, result>>

\* lines 63-78: one pass of the inner loop, a call of transpose_track
\* (lines 95-123)
TransposeTrack ==
    /\ pc = "transposing"
    /\ i < 2 * Len(params.track_indices)
    /\ LET track_idx == params.track_indices[(i \div 2) + 1]
           direction == IF i % 2 = 0 THEN "up" ELSE "down"
           semitone_offset == IF i % 2 = 0 THEN params.semitones
                              ELSE -params.semitones
           output_path == TransposedPath(params.input_midi_path.stem,
                                         track_idx, direction,
                                         params.semitones)
           mid == disk[params.input_midi_path]
       IN IF track_idx >= Len(mid.tracks)
          THEN /\ error' = "ValueError"
               /\ pc' = "failed"
               /\ UNCHANGED <<disk, output_paths, i>>
          ELSE /\ disk' = (output_path :>
                              TransposedFile(mid, track_idx, semitone_offset))
                             @@ disk
               /\ output_paths' = Append(output_paths, output_path)
               /\ i' = i + 1
               /\ UNCHANGED <<error, pc>>
    /\ UNCHANGED <<rng, params, ticks_per_phrase, num_versions, used_orders,
                   attempts, warnings, last, orders, history, bench, result>>

\* line 83
ReturnPaths ==
    /\ pc = "transposing"
    /\ i = 2 * Len(params.track_indices)
    /\ pc' = "transposed"
    /\ UNCHANGED <<disk, rng, params, ticks_per_phrase, num_versions,
                   used_orders, output_paths, i, attempts, warnings, error,
                   last, orders, history, bench, result>>

InitTranspose ==
    /\ InitCommon
    /\ disk = TransposeLibrary
    /\ rng = Entropy

NextTranspose == GenerateTransposedVersions \/ TransposeTrack \/ ReturnPaths

SpecTranspose == InitTranspose /\ [][NextTranspose]_vars

----------------------------------------------------------------------------
(* Properties of the track transposition (SpecTranspose).                  *)

\* some requested track index is negative or not below the number of tracks
SomeIndexOutOfRange ==
    \E k \in DOMAIN params.track_indices :
        \/ params.track_indices[k] < 0
        \/ params.track_indices[k] >= Len(disk[params.input_midi_path].tracks)

\* the k-th file written is the input with only the note pitches of the
\* selected track changed
OnlySelectedPitchesChanged(k) ==
    LET mid == disk[params.input_midi_path]
        out == disk[output_paths[k]]
        track_idx == params.track_indices[((k - 1) \div 2) + 1]
        offset == IF k % 2 = 1 THEN params.semitones ELSE -params.semitones
    IN /\ out.ticks_per_beat = mid.ticks_per_beat
       /\ Len(out.tracks) = Len(mid.tracks)
       /\ \A t \in DOMAIN mid.tracks :
             /\ Len(out.tracks[t]) = Len(mid.tracks[t])
             /\ t # track_idx + 1 => out.tracks[t] = mid.tracks[t]
             /\ \A j \in DOMAIN mid.tracks[t] :
                   LET m == mid.tracks[t][j]
                       o == out.tracks[t][j]
                   IN /\ [o EXCEPT !.note = m.note] = m
                      /\ m.type \notin {"note_on", "note_off"} => o = m
                      /\ (t = track_idx + 1
                            /\ m.type \in {"note_on", "note_off"})
                           => \/ o.note = m.note + offset
                              \/ o.note = 0 /\ m.note + offset < 0
                              \/ o.note = 127 /\ m.note + offset > 127

\* C27: generate_transposed_versions fails with the configuration error
\* (ValueError) when any requested track index is negative or not below the
\* number of tracks, before writing any output, also when earlier indices of
\* the list are valid; on success only the selected track's note pitches
\* change and every other track is copied unchanged.
C27_IndicesCheckedBeforeAnyWrite ==
    /\ (pc # "idle" /\ InputExists /\ SomeIndexOutOfRange) =>
          /\ pc = "failed"
          /\ error = "ValueError"
          /\ output_paths = <<>>
          /\ \A p \in DOMAIN disk : p.dir = "in"
    /\ pc \in {"transposing", "transposed"} =>
          /\ \A k \in DOMAIN output_paths :
                /\ output_paths[k] \in DOMAIN disk
                /\ OnlySelectedPitchesChanged(k)
          /\ pc = "transposed" =>
                Len(output_paths) = 2 * Len(params.track_indices)

\* the call for tracks [0, 2] of the two-track input failed: index 0 is
\* valid, index 2 is not, and nothing was written
C27_Witness ==
    /\ pc = "failed"
    /\ params.input_midi_path = InPath("t")
    /\ params.track_indices = <<0, 2>>
    /\ error = "ValueError"
    /\ DOMAIN disk = DOMAIN TransposeLibrary

----------------------------------------------------------------------------
(* Further properties of the segmentation and the rebuild (SpecReshuffle). *)

\* C28: after segmentation every event held by a unit, original or
\* synthesized, has a local relative time between 0 and W inclusive, so that
\* the unit placed at slot s has all of its events within [s*W, (s+1)*W] and
\* no event of the output lies beyond U*W.
C28_EventsWithinTheirWindow ==
    Returned =>
        \A t \in TrackIds :
            LET W == last.ticks_per_bar
                U == last.num_bars
            IN /\ \A e \in BarEntries(last.segs[t]) : e.rel \in 0..W
               /\ \A x \in Range(last.all_msgs[t]) :
                     x.slot >= 0 =>
                        /\ x.slot * W <= x.abs
                        /\ x.abs <= (x.slot + 1) * W
               /\ \A k \in DOMAIN last.new_mid.tracks[t] :
                     AbsTime(last.new_mid.tracks[t], k) <= U * W

\* the length in ticks of the longest track of the input
LongestTrackTicks ==
    LET lengths == {SumTimes(last.mid.tracks[t]) : t \in TrackIds}
    IN CHOOSE x \in lengths : \A y \in lengths : y <= x

\* C29: within one output version every track is segmented with the same
\* unit count U, derived from the longest track, and the same width W, and is
\* rebuilt with the same unit order, so the tracks stay aligned slot by slot;
\* the output has as many tracks as the input, in the same track order.
C29_TracksShareUnitsAndOrder ==
    Returned =>
        LET W == last.ticks_per_bar
            U == last.num_bars
        IN /\ U = (LongestTrackTicks + W - 1) \div W
           /\ Len(last.bar_order) = U
           /\ DOMAIN last.new_mid.tracks = DOMAIN last.mid.tracks
           /\ \A t \in TrackIds :
                 LET seg == last.segs[t]
                     all == last.all_msgs[t]
                     out == last.new_mid.tracks[t]
                 IN /\ Len(seg.bars) = U
                    /\ \A k \in 0..(U - 1) :
                          \A e \in Range(seg.bars[k + 1]) :
                             e.orig > 0 => e.rel = e.abs - k * W
                    /\ \A j \in DOMAIN all :
                          /\ all[j].slot >= 0 =>
                                /\ all[j].bar = last.bar_order[all[j].slot + 1]
                                /\ all[j].abs >= all[j].slot * W
                          /\ WithTime(out[j], 0) = WithTime(all[j].msg, 0)
                          /\ AbsTime(out, j) = all[j].abs
                    /\ \A o \in DOMAIN last.mid.tracks[t] :
                          \E j \in DOMAIN all :
                             /\ all[j].orig = o
                             /\ WithTime(all[j].msg, 0)
                                   = WithTime(last.mid.tracks[t][o], 0)

\* a two-track input whose second track is the longer one, written in the
\* order [1, 0]: both tracks have an event in the unit moved to the front,
\* and the first track has one in the unit moved to the back
C29_Witness ==
    /\ Returned
    /\ Len(last.mid.tracks) = 2
    /\ SumTimes(last.mid.tracks[1]) < SumTimes(last.mid.tracks[2])
    /\ last.bar_order = <<1, 0>>
    /\ \A t \in TrackIds :
          \E x \in Range(last.all_msgs[t]) : x.slot = 0 /\ x.bar = 1
    /\ \E x \in Range(last.all_msgs[1]) : x.slot = 1 /\ x.bar = 0

\* the messages a and b are note messages of the same channel and pitch
SameKey(a, b) ==
    /\ a.type \in {"note_on", "note_off"}
    /\ b.type \in {"note_on", "note_off"}
    /\ note_key(a) = note_key(b)

\* track t of the input is well formed: every note-on is closed by a
\* note-off of its key before the next note-on of that key and before the
\* end of the track
WellFormedTrack(t) ==
    LET track == last.mid.tracks[t]
    IN \A o \in DOMAIN track :
          IsNoteOn(track[o]) =>
             \E c \in (o + 1)..Len(track) :
                /\ IsNoteOffLike(track[c])
                /\ SameKey(track[c], track[o])
                /\ \A m \in (o + 1)..(c - 1) :
                      ~(IsNoteOn(track[m]) /\ SameKey(track[m], track[o]))

\* C30: for a well-formed input track, every note-on of the output track,
\* for every order, is followed by a note-off of the same channel and pitch
\* no later than the end of the slot it was placed in, and the first note
\* message of its key that follows it is that note-off, which belongs to the
\* same unit: no note sounds across a slot boundary and no note-off cuts
\* short a note started in another unit.
C30_NotesClosedWithinTheirSlot ==
    Returned =>
        \A t \in TrackIds :
            WellFormedTrack(t) =>
                LET all == last.all_msgs[t]
                    out == last.new_mid.tracks[t]
                    W == last.ticks_per_bar
                IN \A j \in DOMAIN all :
                      IsNoteOn(out[j]) =>
                         /\ out[j] = WithTime(all[j].msg, out[j].time)
                         /\ \E k \in (j + 1)..Len(all) :
                               /\ IsNoteOffLike(out[k])
                               /\ SameKey(out[k], out[j])
                               /\ AbsTime(out, k) <= (all[j].slot + 1) * W
                               /\ all[k].slot = all[j].slot
                               /\ all[k].bar = all[j].bar
                               /\ \A m \in (j + 1)..(k - 1) :
                                     ~SameKey(out[m], out[j])

\* a well-formed track whose note crosses a whole unit, written with the
\* units in reverse order
C30_Witness ==
    /\ Returned
    /\ last.bar_order = <<2, 1, 0>>
    /\ \E t \in TrackIds :
          /\ WellFormedTrack(t)
          /\ \E e \in Range(last.segs[t].bars[2]) :
                e.orig = 0 /\ IsNoteOn(e.msg)
          /\ \E j \in DOMAIN last.all_msgs[t] :
                /\ IsNoteOffLike(last.all_msgs[t][j].msg)
                /\ last.all_msgs[t][j].orig > 0
                /\ last.all_msgs[t][j].slot = 0

====
